---- MODULE Spec2Model ----
(***************************************************************************)
(* Model of src/src/App.jsx: the App component (booking dialog state,      *)
(* recently-viewed cache, notifications), the BookingModal three-step      *)
(* wizard built on the useFormValidation hook, and the ErrorBoundary that  *)
(* wraps the page.                                                         *)
(*                                                                         *)
(* Text values are sequences of one-character strings, so that trim() and  *)
(* the e-mail regular expression are computed character by character.      *)
(* A date input value is <<>> (the empty string) or <<y, m, d>>.           *)
(***************************************************************************)
EXTENDS Integers, Sequences, FiniteSets, TLC

VARIABLES
    bookingModalOpen,   \* App: useState(false), line 632
    selectedMotor,      \* App: useState(null), line 633 (NoMotor or a catalog id)
    recentlyViewed,     \* App: useLocalStorage('recentlyViewed', []), line 636
    storage,            \* window.localStorage item 'recentlyViewed'
    notifications,      \* useNotifications: useState([]), line 111
    timers,             \* pending setTimeout callbacks, in creation order
    hasError,           \* ErrorBoundary.state.hasError, line 8
    step,               \* BookingModal: useState(1), line 338
    values,             \* useFormValidation: useState(initialState), line 57
    errors,             \* useFormValidation: useState({}), line 58
    isSubmitting,       \* useFormValidation: useState(false), line 59
    touched,            \* useFormValidation: useState({}), line 60
    confirmed,          \* the bookingData objects handed to onConfirm in this
                        \* session of the dialog (line 395), oldest first
    unmounted,          \* React has removed the whole tree: App itself threw
                        \* while rendering, above the ErrorBoundary of line 794
    activeTestimonial,  \* App: useState(0), line 630
    contactForm,        \* App: the useFormValidation state of line 675, as
                        \* [values, errors, isSubmitting, touched]
    bodyOverflow,       \* document.body.style.overflow, lines 383 and 388
    escapeListener,     \* handleEscape is a keydown listener of the document,
                        \* lines 382 and 387
    initialStateRef,    \* which object the last resetForm() stored in values:
                        \* the initialState literal of lines 354-361 is a new
                        \* object at every render, and two identities tell
                        \* the object of one render from that of the next
    effectDue           \* BookingModal has rendered and the effect of lines
                        \* 369-374 has not run yet for that render

vars == <<bookingModalOpen, selectedMotor, recentlyViewed, storage,
          notifications, timers, hasError, step, values, errors,
          isSubmitting, touched, confirmed, unmounted, activeTestimonial,
          contactForm, bodyOverflow, escapeListener, initialStateRef,
          effectDue>>

appVars    == <<bookingModalOpen, selectedMotor, recentlyViewed, storage>>
notifVars  == <<notifications, timers>>
formVars   == <<values, errors, isSubmitting, touched>>
siteVars   == <<activeTestimonial, contactForm>>
domVars    == <<bodyOverflow, escapeListener>>
effectVars == <<initialStateRef, effectDue>>

----------------------------------------------------------------------------
(* Bounds of the model *)

\* longest e-mail text typed in the e-mail specification
MaxEmailLen == 6
\* onConfirm calls recorded per session before submit is no longer explored
MaxConfirms == 2
\* notifications alive at once before a further booking is no longer explored
MaxLive == 1
\* timers pending at once, those of a further booking included
MaxTimers == 4

----------------------------------------------------------------------------
(* Catalog: useMotorcycleData, lines 266-334 *)

NoMotor == 0

Price(id) ==
    CASE id = 1 -> 120000
      [] id = 2 -> 100000
      [] id = 3 -> 130000
      [] id = 4 -> 150000
      [] id = 5 -> 80000
      [] id = 6 -> 110000

CatalogIds == 1..6

----------------------------------------------------------------------------
(* Text and date primitives *)

EmptyStr == <<>>

Whitespace == {" "}

\* s.trim() is the empty string
IsBlank(s) == \A i \in 1..Len(s) : s[i] \in Whitespace

NonSpace(c) == c \notin Whitespace

\* the pattern without its "\.\S+" part
EmailRegexNoDot(s) ==
    \E i \in 1..Len(s) :
        /\ s[i] = "@"
        /\ i >= 2
        /\ NonSpace(s[i-1])
        /\ i + 1 <= Len(s)
        /\ NonSpace(s[i+1])

\* /\S+@\S+\.\S+/.test(s): unanchored; \S also matches '@' and '.'
EmailRegexTest(s) ==
    \E i \in 1..Len(s) : \E j \in 1..Len(s) :
        /\ s[i] = "@"
        /\ i >= 2
        /\ NonSpace(s[i-1])
        /\ j >= i + 2
        /\ s[j] = "."
        /\ \A k \in (i+1)..(j-1) : NonSpace(s[k])
        /\ j + 1 <= Len(s)
        /\ NonSpace(s[j+1])

MsPerDay == 1000 * 60 * 60 * 24

\* days from 1970-01-01 to the civil date y-m-d (proleptic Gregorian)
DaysFromCivil(y, m, d) ==
    LET yy  == IF m <= 2 THEN y - 1 ELSE y
        era == yy \div 400
        yoe == yy - era * 400
        mp  == (m + 9) % 12
        doy == (153 * mp + 2) \div 5 + d - 1
        doe == yoe * 365 + yoe \div 4 - yoe \div 100 + doy
    IN  era * 146097 + doe - 719468

\* new Date("yyyy-mm-dd") is UTC midnight of that date: getTime() is
\* EpochDay(s) * MsPerDay, a number beyond the integers of the model checker,
\* so that a date is kept as its day number and only differences are put in ms
EpochDay(s) == DaysFromCivil(s[1], s[2], s[3])

\* new Date(a) - new Date(b), in ms
DateDiffMs(a, b) == (EpochDay(a) - EpochDay(b)) * MsPerDay

\* new Date(a) <= new Date(b)
DateLeq(a, b) == DateDiffMs(a, b) <= 0

\* Math.ceil(a / b) for b > 0
CeilDiv(a, b) == -((-a) \div b)

Max(a, b) == IF a >= b THEN a ELSE b

----------------------------------------------------------------------------
(* BookingModal: validation and derived values *)

Fields == {"name", "email", "phone", "startDate", "endDate", "notes"}

\* the initialState object of the useFormValidation call, lines 354-361
InitialValues == [f \in Fields |-> EmptyStr]

MsgNameRequired  == "Nama harus diisi"
MsgEmailRequired == "Email harus diisi"
MsgEmailInvalid  == "Email tidak valid"
MsgPhoneRequired == "Nomor telepon harus diisi"
MsgStartRequired == "Tanggal mulai harus diisi"
MsgEndRequired   == "Tanggal selesai harus diisi"
MsgEndNotAfter   == "Tanggal selesai harus setelah tanggal mulai"

\* the comparison of the two dates made strict
EndBeforeStart(data) ==
    /\ data.startDate # EmptyStr
    /\ DateDiffMs(data.endDate, data.startDate) < 0

\* new Date(endDate) <= new Date(startDate); with startDate '' the right side
\* is an Invalid Date and the comparison is false
EndNotAfterStart(data) ==
    /\ data.startDate # EmptyStr
    /\ DateLeq(data.endDate, data.startDate)

\* the two e-mail checks in the opposite order
EmailErrorShapeFirst(data) ==
    IF ~EmailRegexTest(data.email) THEN {<<"email", MsgEmailInvalid>>}
    ELSE IF IsBlank(data.email) THEN {<<"email", MsgEmailRequired>>}
    ELSE {}

EmailError(data) ==
    IF IsBlank(data.email) THEN {<<"email", MsgEmailRequired>>}
    ELSE IF ~EmailRegexTest(data.email) THEN {<<"email", MsgEmailInvalid>>}
    ELSE {}

\* the end date checked for presence only
EndDateErrorNoRange(data) ==
    IF data.endDate = EmptyStr THEN {<<"endDate", MsgEndRequired>>} ELSE {}

EndDateError(data) ==
    IF data.endDate = EmptyStr THEN {<<"endDate", MsgEndRequired>>}
    ELSE IF EndNotAfterStart(data) THEN {<<"endDate", MsgEndNotAfter>>}
    ELSE {}

\* the phone number left unchecked
PhoneErrorNone(data) == {}

PhoneError(data) ==
    IF IsBlank(data.phone) THEN {<<"phone", MsgPhoneRequired>>} ELSE {}

\* the errors object as a function from its keys to the messages
ErrorObject(pairs) ==
    [k \in {p[1] : p \in pairs} |-> (CHOOSE p \in pairs : p[1] = k)[2]]

NoErrors == ErrorObject({})

validateBooking(data) ==
    ErrorObject(
        (IF IsBlank(data.name) THEN {<<"name", MsgNameRequired>>} ELSE {})
        \cup EmailError(data)
        \cup PhoneError(data)
        \cup (IF data.startDate = EmptyStr
                THEN {<<"startDate", MsgStartRequired>>} ELSE {})
        \cup EndDateError(data))

\* the day count without the minimum of one day
totalDaysNoClamp(vals) ==
    IF vals.startDate # EmptyStr /\ vals.endDate # EmptyStr
    THEN CeilDiv(DateDiffMs(vals.endDate, vals.startDate), MsPerDay)
    ELSE 0

totalDays(vals) ==
    IF vals.startDate # EmptyStr /\ vals.endDate # EmptyStr
    THEN Max(1, CeilDiv(DateDiffMs(vals.endDate, vals.startDate), MsPerDay))
    ELSE 0

\* the daily rate taken for the total
totalPriceOneDay(vals, motor) == IF motor = NoMotor THEN 0 ELSE Price(motor)

\* totalDays * (motor?.price || 0)
totalPrice(vals, motor) ==
    totalDays(vals) * (IF motor = NoMotor THEN 0 ELSE Price(motor))

----------------------------------------------------------------------------
(* useNotifications and the timers it starts *)

MsgBooked   == "Booking berhasil! Konfirmasi telah dikirim ke email Anda."
MsgFollowUp == "Tim kami akan menghubungi Anda dalam 30 menit."

DefaultDuration == 5000
FollowUpDelay == 1000
FollowUpDuration == 3000

SeqToSet(q) == {q[i] : i \in 1..Len(q)}

\* Date.now() + Math.random(): a value no live notification or timer carries
FreshId(ns, ts) ==
    LET used == {n.id : n \in SeqToSet(ns)}
                \cup {t.id : t \in {x \in SeqToSet(ts) : x.kind = "expire"}}
    IN  CHOOSE id \in 1..(Cardinality(used) + 1) : id \notin used

\* addNotification(message, 'success', duration), as a pair of new values
addNotification(ns, ts, message, duration) ==
    LET id == FreshId(ns, ts)
    IN  [notifications |-> Append(ns, [id |-> id, message |-> message,
                                        type |-> "success", duration |-> duration]),
         timers |-> Append(ts, [kind |-> "expire", id |-> id, remaining |-> duration])]

\* handleBookingConfirm(bookingData): one notification now, one after a delay
handleBookingConfirm(ns, ts) ==
    LET now == addNotification(ns, ts, MsgBooked, DefaultDuration)
    IN  [notifications |-> now.notifications,
         timers |-> Append(now.timers,
                           [kind |-> "followup", id |-> 0, remaining |-> FollowUpDelay])]

\* document.body.style.overflow: never set, 'hidden', 'unset'
OverflowInitial == ""
OverflowHidden  == "hidden"
OverflowUnset   == "unset"

\* App has rendered again with the dialog as it was: onClose is a new function
\* (line 1320), so the effect of lines 376-390 runs its cleanup and then its
\* body again, if BookingModal is mounted
AppRendered ==
    /\ escapeListener' = escapeListener
    /\ bodyOverflow' =
           IF hasError \/ unmounted THEN bodyOverflow
           ELSE IF bookingModalOpen THEN OverflowHidden ELSE OverflowUnset

\* the oldest notification removed, whatever the id
WithoutOldest(ns, id) == IF ns = <<>> THEN ns ELSE Tail(ns)

\* prev.filter(notif => notif.id !== id)
WithoutId(ns, id) ==
    LET Keep(n) == n.id # id IN SelectSeq(ns, Keep)

RemoveAt(q, i) == SubSeq(q, 1, i - 1) \o SubSeq(q, i + 1, Len(q))

\* the pending timer that is due next: the least remaining time, the oldest first
NextDue(ts) ==
    CHOOSE i \in 1..Len(ts) :
        /\ \A k \in 1..Len(ts) : ts[i].remaining <= ts[k].remaining
        /\ \A k \in 1..(i-1) : ts[k].remaining > ts[i].remaining

\* time passes until the next pending timer is due, and its callback runs
FireTimer ==
    /\ timers # <<>>
    /\ LET i    == NextDue(timers)
           t    == timers[i]
           rest == [k \in 1..(Len(timers) - 1) |->
                       [RemoveAt(timers, i)[k] EXCEPT
                           !.remaining = @ - t.remaining]]
       IN  IF t.kind = "expire"
           THEN /\ notifications' =
                       WithoutId(notifications, t.id)
                /\ timers' = rest
           ELSE LET r == addNotification(notifications, rest,
                                         MsgFollowUp, FollowUpDuration)
                IN  /\ notifications' = r.notifications
                    /\ timers' = r.timers
    /\ UNCHANGED <<appVars, hasError, step, formVars, confirmed, unmounted, siteVars,
                   initialStateRef>>
    /\ AppRendered
    /\ effectDue' = TRUE

\* the grain of time at which other events fall between two timers
Tick == FollowUpDelay \div 2

\* a Tick of time passes and no pending timer becomes due in it
Elapse ==
    /\ timers # <<>>
    /\ \A k \in 1..Len(timers) : timers[k].remaining > Tick
    /\ timers' = [k \in 1..Len(timers) |->
                      [timers[k] EXCEPT !.remaining = @ - Tick]]
    /\ UNCHANGED <<appVars, notifications, hasError, step, formVars, confirmed,
                   unmounted, siteVars, domVars, effectVars>>

\* the close button of a notification: removeNotification(id)
removeNotification(id) ==
    /\ ~hasError
    /\ \E n \in SeqToSet(notifications) : n.id = id
    /\ notifications' = WithoutId(notifications, id)
    /\ UNCHANGED <<appVars, timers, hasError, step, formVars, confirmed,
                   unmounted, siteVars,
                   initialStateRef>>
    /\ AppRendered
    /\ effectDue' = TRUE

----------------------------------------------------------------------------
(* useLocalStorage('recentlyViewed', []) *)

StorageAbsent == "<absent>"

\* JSON.stringify of the updater function handed to setValue is undefined, and
\* setItem stores the text "undefined"
StoredUpdater == "undefined"

\* getItem and setItem throw (storage disabled or full)
StorageThrows == "<throws>"

\* an item written by something else than this page
StoredEmpty   == ""
StoredGarbage == "{oops"
StoredNull    == "null"
StoredNumber  == "7"
StoredObject  == "{}"
StoredList    == "[{\"id\":2},{\"id\":1}]"

\* the state value when the item parsed to something that is not an array
\* (null, a number, an object): a value without a filter method.  A list is
\* a sequence of catalog ids, which are positive
JsonNotArray == <<-1>>

IsArray(v) == v # JsonNotArray

\* the lazy initial state, lines 134-142: item ? JSON.parse(item) : [] and []
\* when getItem or JSON.parse throws
ReadStorage(item) ==
    CASE item \in {StorageAbsent, StoredEmpty} -> <<>>
      [] item = StorageThrows -> <<>>
      [] item \in {StoredUpdater, StoredGarbage} -> <<>>
      [] item \in {StoredNull, StoredNumber, StoredObject} -> JsonNotArray
      [] item = StoredList -> <<2, 1>>

\* window.localStorage.setItem(key, JSON.stringify(value)) inside try/catch,
\* lines 144-151, value being the updater function
WriteStorage(item) == IF item = StorageThrows THEN item ELSE StoredUpdater

Take(q, n) == SubSeq(q, 1, IF Len(q) < n THEN Len(q) ELSE n)

RecentLimit == 3

\* the vehicle put in front of the list as it is
RecentUpdaterNoFilter(prev, motor) == Take(<<motor>> \o prev, RecentLimit)

\* the vehicle put behind the others
RecentUpdaterAppend(prev, motor) ==
    LET Keep(item) == item # motor
    IN  Take(SelectSeq(prev, Keep) \o <<motor>>, RecentLimit)

\* prev => [motor, ...prev.filter(item => item.id !== motor.id)].slice(0, 3)
RecentUpdater(prev, motor) ==
    LET Keep(item) == item # motor
    IN  Take(<<motor>> \o SelectSeq(prev, Keep), RecentLimit)

----------------------------------------------------------------------------
(* The contact form and the testimonial carousel of App *)

ContactFields == {"name", "email", "message"}

\* the initialState object of the useFormValidation call, line 676
ContactInitialValues == [f \in ContactFields |-> EmptyStr]

MsgMessageRequired == "Pesan harus diisi"
MsgContactSent     == "Pesan terkirim! Kami akan membalas dalam 1x24 jam."

\* the message left unchecked
MessageErrorNone(data) == {}

MessageError(data) ==
    IF IsBlank(data.message) THEN {<<"message", MsgMessageRequired>>} ELSE {}

validateContact(data) ==
    ErrorObject(
        (IF IsBlank(data.name) THEN {<<"name", MsgNameRequired>>} ELSE {})
        \cup EmailError(data)
        \cup MessageError(data))

\* the state of a useFormValidation hook after its first render
ContactInitial ==
    [values |-> ContactInitialValues, errors |-> NoErrors,
     isSubmitting |-> FALSE, touched |-> {}]

\* testimonials.length
TestimonialCount == 3

\* the part of the page outside the booking dialog, after the first render
InitPage ==
    /\ activeTestimonial = 0
    /\ contactForm = ContactInitial
    /\ bodyOverflow = OverflowInitial
    /\ escapeListener = FALSE
    /\ initialStateRef = 0
    /\ effectDue = TRUE

----------------------------------------------------------------------------
(* Initial state: the page has loaded and the dialog is closed *)

Init ==
    /\ bookingModalOpen = FALSE
    /\ selectedMotor = NoMotor
    /\ storage = StorageAbsent
    /\ recentlyViewed = ReadStorage(storage)
    /\ notifications = <<>>
    /\ timers = <<>>
    /\ hasError = FALSE
    /\ step = 1
    /\ values = InitialValues
    /\ errors = NoErrors
    /\ isSubmitting = FALSE
    /\ touched = {}
    /\ confirmed = <<>>
    /\ unmounted = FALSE
    /\ InitPage

----------------------------------------------------------------------------
(* BookingModal *)

\* the step-1 and step-3 views read motor.image / motor.name / motor.price
RenderThrows(open, motor, st) == open /\ motor = NoMotor /\ st # 2

\* the inputs that the view of a step renders
StepFields(st) ==
    CASE st = 1 -> {"startDate", "endDate"}
      [] st = 2 -> {"name", "email", "phone", "notes"}
      [] OTHER -> {}

DialogShown == bookingModalOpen /\ ~hasError /\ ~unmounted

\* resetForm() without its setIsSubmitting(false)
ResetFormKeepsBusy ==
    /\ values' = InitialValues
    /\ errors' = NoErrors
    /\ touched' = {}
    /\ isSubmitting' = isSubmitting

\* resetForm(): lines 90-95
ResetForm ==
    /\ values' = InitialValues
    /\ errors' = NoErrors
    /\ touched' = {}
    /\ isSubmitting' = FALSE

\* the updater of setRecentlyViewed runs when App renders next: prev.filter
\* is a TypeError when prev is not an array
UpdaterThrows(prev, motor) == motor # NoMotor /\ ~IsArray(prev)

\* handleBooking(motor): a catalog card button (motor given) or the header,
\* hero and mobile-menu buttons (no motor); then App and the dialog render.
\* An error thrown by the render of App has no boundary above it: React
\* removes the tree, and with it the state of every component
handleBooking(motor) ==
    /\ ~hasError
    /\ ~unmounted
    /\ storage' = IF motor # NoMotor THEN WriteStorage(storage) ELSE storage
    /\ IF UpdaterThrows(recentlyViewed, motor)
       THEN /\ unmounted' = TRUE
            /\ bookingModalOpen' = FALSE
            /\ selectedMotor' = NoMotor
            /\ notifications' = <<>>
            /\ timers' = <<>>
            /\ step' = 1
            /\ ResetForm
            /\ confirmed' = <<>>
            /\ activeTestimonial' = 0
            /\ contactForm' = ContactInitial
            /\ bodyOverflow' = OverflowUnset
            /\ escapeListener' = FALSE
            /\ UNCHANGED <<recentlyViewed, hasError, effectVars>>
       ELSE /\ IF motor # NoMotor
               THEN /\ selectedMotor' = motor
                    /\ recentlyViewed' = RecentUpdater(recentlyViewed, motor)
               ELSE UNCHANGED <<selectedMotor, recentlyViewed>>
            /\ bookingModalOpen' = TRUE
            /\ IF RenderThrows(TRUE, selectedMotor', step)
               THEN /\ hasError' = TRUE
                    /\ step' = 1
                    /\ ResetForm
                    /\ confirmed' = <<>>
                    /\ bodyOverflow' = OverflowUnset
                    /\ escapeListener' = FALSE
               ELSE /\ bodyOverflow' = OverflowHidden
                    /\ escapeListener' = TRUE
                    /\ UNCHANGED <<hasError, step, formVars, confirmed>>
            /\ effectDue' = TRUE
            /\ UNCHANGED <<notifVars, unmounted, siteVars, initialStateRef>>

\* the draft validated on every change
handleChangeValidates(name, value) ==
    /\ DialogShown
    /\ name \in StepFields(step)
    /\ values' = [values EXCEPT ![name] = value]
    /\ touched' = touched \cup {name}
    /\ errors' = validateBooking(values')
    /\ UNCHANGED <<appVars, notifVars, hasError, step, isSubmitting,
                   confirmed, unmounted, siteVars, domVars,
                   initialStateRef>>
    /\ effectDue' = TRUE

\* handleChange(e) with e.target = {name, value}: lines 62-69
handleChange(name, value) ==
    /\ DialogShown
    /\ name \in StepFields(step)
    /\ values' = [values EXCEPT ![name] = value]
    /\ touched' = touched \cup {name}
    /\ UNCHANGED <<appVars, notifVars, hasError, step, errors, isSubmitting,
                   confirmed, unmounted, siteVars, domVars,
                   initialStateRef>>
    /\ effectDue' = TRUE

\* a blur that marks the field and leaves the errors as they were
handleBlurKeepsErrors(name) ==
    /\ DialogShown
    /\ name \in StepFields(step)
    /\ touched' = touched \cup {name}
    /\ effectDue' = TRUE
    /\ UNCHANGED <<appVars, notifVars, hasError, step, values, errors,
                   isSubmitting, confirmed, unmounted, siteVars, domVars,
                   initialStateRef>>

\* handleBlur(e): lines 71-76
handleBlur(name) ==
    /\ DialogShown
    /\ name \in StepFields(step)
    /\ touched' = touched \cup {name}
    /\ errors' = validateBooking(values)
    /\ UNCHANGED <<appVars, notifVars, hasError, step, values, isSubmitting,
                   confirmed, unmounted, siteVars, domVars,
                   initialStateRef>>
    /\ effectDue' = TRUE

\* the step-1 button going past the details step
AdvanceToConfirm ==
    /\ DialogShown
    /\ step = 1
    /\ ~(totalDays(values) <= 0)
    /\ step' = 3
    /\ UNCHANGED <<appVars, notifVars, hasError, formVars, confirmed, unmounted, siteVars, domVars,
                   initialStateRef>>
    /\ effectDue' = TRUE

\* the step-1 button: onClick={() => setStep(2)}, disabled={totalDays <= 0}
Advance ==
    /\ DialogShown
    /\ step = 1
    /\ ~(totalDays(values) <= 0)
    /\ step' = 2
    /\ UNCHANGED <<appVars, notifVars, hasError, formVars, confirmed, unmounted, siteVars, domVars,
                   initialStateRef>>
    /\ effectDue' = TRUE

\* the "Kembali" button clearing the draft
BackClearsDraft ==
    /\ DialogShown
    /\ step = 2
    /\ step' = 1
    /\ ResetForm
    /\ UNCHANGED <<appVars, notifVars, hasError, confirmed, unmounted, siteVars, domVars,
                   initialStateRef>>
    /\ effectDue' = TRUE

\* the step-2 "Kembali" button: onClick={() => setStep(1)}
Back ==
    /\ DialogShown
    /\ step = 2
    /\ step' = 1
    /\ UNCHANGED <<appVars, notifVars, hasError, formVars, confirmed, unmounted, siteVars, domVars,
                   initialStateRef>>
    /\ effectDue' = TRUE

\* { ...formData, motor, totalDays, totalPrice }: totalDays and totalPrice are
\* those of the render that made the handler, computed from its values
BookingData(formData, motor) ==
    [k \in Fields \cup {"motor", "totalDays", "totalPrice"} |->
        CASE k = "motor" -> motor
          [] k = "totalDays" -> totalDays(values)
          [] k = "totalPrice" -> totalPrice(values, motor)
          [] OTHER -> formData[k]]

\* the callback run whether or not validation found errors
SubmitUnchecked ==
    /\ DialogShown
    /\ step = 2
    /\ ~isSubmitting
    /\ Len(confirmed) < MaxConfirms
    /\ Len(notifications) < MaxLive
    /\ Len(timers) + 2 <= MaxTimers
    /\ LET n == handleBookingConfirm(notifications, timers)
       IN  /\ errors' = validateBooking(values)
           /\ touched' = DOMAIN values
           /\ isSubmitting' = (DOMAIN validateBooking(values) = {})
           /\ confirmed' = Append(confirmed, BookingData(values, selectedMotor))
           /\ notifications' = n.notifications
           /\ timers' = n.timers
           /\ step' = IF DOMAIN validateBooking(values) = {} THEN 3 ELSE 2
    /\ UNCHANGED <<appVars, hasError, values, unmounted, siteVars, domVars,
                   initialStateRef>>
    /\ effectDue' = TRUE

\* setIsSubmitting(true) called before the errors are looked at
SubmitBusyFirst ==
    /\ DialogShown
    /\ step = 2
    /\ ~isSubmitting
    /\ Len(confirmed) < MaxConfirms
    /\ Len(notifications) < MaxLive
    /\ Len(timers) + 2 <= MaxTimers
    /\ LET validationErrors == validateBooking(values)
       IN  /\ errors' = validationErrors
           /\ touched' = DOMAIN values
           /\ isSubmitting' = TRUE
           /\ IF DOMAIN validationErrors = {}
              THEN LET n == handleBookingConfirm(notifications, timers)
                   IN  /\ confirmed' = Append(confirmed,
                                              BookingData(values, selectedMotor))
                       /\ notifications' = n.notifications
                       /\ timers' = n.timers
                       /\ step' = 3
              ELSE UNCHANGED <<confirmed, notifVars, step>>
    /\ UNCHANGED <<appVars, hasError, values, unmounted, siteVars, domVars,
                   initialStateRef>>
    /\ effectDue' = TRUE

\* the step-2 form: onSubmit={handleSubmit(handleBookingSubmit)}
Submit ==
    /\ DialogShown
    /\ step = 2
    /\ ~isSubmitting
    /\ Len(confirmed) < MaxConfirms
    /\ Len(notifications) < MaxLive
    /\ Len(timers) + 2 <= MaxTimers
    /\ LET validationErrors == validateBooking(values)
       IN  /\ errors' = validationErrors
           /\ touched' = DOMAIN values
           /\ IF DOMAIN validationErrors = {}
              THEN LET n == handleBookingConfirm(notifications, timers)
                   IN  /\ isSubmitting' = TRUE
                       /\ confirmed' = Append(confirmed,
                                              BookingData(values, selectedMotor))
                       /\ notifications' = n.notifications
                       /\ timers' = n.timers
                       /\ step' = 3
              ELSE UNCHANGED <<isSubmitting, confirmed, notifVars, step>>
    /\ UNCHANGED <<appVars, hasError, values, unmounted, siteVars, domVars,
                   initialStateRef>>
    /\ effectDue' = TRUE

\* closing the dialog clears the timers that have not run yet
CloseCancelsTimers ==
    /\ DialogShown
    /\ bookingModalOpen' = FALSE
    /\ step' = 1
    /\ ResetForm
    /\ confirmed' = <<>>
    /\ timers' = <<>>
    /\ bodyOverflow' = OverflowUnset
    /\ escapeListener' = FALSE
    /\ initialStateRef' = 1 - initialStateRef
    /\ effectDue' = TRUE
    /\ UNCHANGED <<selectedMotor, recentlyViewed, storage, notifications,
                   hasError, unmounted, siteVars>>

\* the dialog closed without the effect that resets the wizard
CloseNoReset ==
    /\ DialogShown
    /\ bookingModalOpen' = FALSE
    /\ confirmed' = <<>>
    /\ bodyOverflow' = OverflowUnset
    /\ escapeListener' = FALSE
    /\ effectDue' = TRUE
    /\ UNCHANGED <<selectedMotor, recentlyViewed, storage, notifVars, hasError,
                   step, formVars, unmounted, siteVars, initialStateRef>>

\* closing the dialog without the cleanup of the effect of lines 376-390
CloseKeepsLock ==
    /\ DialogShown
    /\ bookingModalOpen' = FALSE
    /\ step' = 1
    /\ ResetForm
    /\ confirmed' = <<>>
    /\ initialStateRef' = 1 - initialStateRef
    /\ effectDue' = TRUE
    /\ UNCHANGED <<selectedMotor, recentlyViewed, storage, notifVars, hasError,
                   unmounted, siteVars, domVars>>

\* onClose (the X button, the backdrop, the step-3 button), followed by the
\* effects of the render with isOpen false: the cleanup of lines 386-389 and
\* the first run of the reset effect of lines 369-374, which stores a new
\* values object and so makes BookingModal render again
Close ==
    /\ DialogShown
    /\ bookingModalOpen' = FALSE
    /\ step' = 1
    /\ ResetForm
    /\ confirmed' = <<>>
    /\ bodyOverflow' = OverflowUnset
    /\ escapeListener' = FALSE
    /\ initialStateRef' = 1 - initialStateRef
    /\ effectDue' = TRUE
    /\ UNCHANGED <<selectedMotor, recentlyViewed, storage, notifVars, hasError,
                   unmounted, siteVars>>

\* the reset effect of lines 369-374, run for the last render.  Its
\* dependency resetForm is a new function at every render (it depends on the
\* initialState literal), so that it runs after every render.  With the dialog
\* closed, resetForm() stores the initialState object of that render in
\* values and a new {} in errors: the state has changed and BookingModal
\* renders again
ResetEffect ==
    /\ effectDue
    /\ ~hasError
    /\ ~unmounted
    /\ IF ~bookingModalOpen
       THEN /\ step' = 1
            /\ ResetForm
            /\ initialStateRef' = 1 - initialStateRef
            /\ effectDue' = TRUE
       ELSE /\ effectDue' = FALSE
            /\ UNCHANGED <<step, formVars, initialStateRef>>
    /\ UNCHANGED <<appVars, notifVars, hasError, confirmed, unmounted, siteVars,
                   domVars>>

\* a key press of Escape: handleEscape calls onClose when it is registered
PressEscape ==
    \/ escapeListener /\ Close
    \/ ~escapeListener /\ UNCHANGED vars

----------------------------------------------------------------------------
(* ErrorBoundary *)

\* "Coba Lagi": setState({hasError: false}); the children mount again with
\* the App state they had and a fresh BookingModal
Retry ==
    /\ hasError
    /\ hasError' = RenderThrows(bookingModalOpen, selectedMotor, 1)
    /\ escapeListener' = (bookingModalOpen /\ ~hasError')
    /\ bodyOverflow' = IF escapeListener' THEN OverflowHidden ELSE bodyOverflow
    /\ effectDue' = TRUE
    /\ UNCHANGED <<appVars, notifVars, step, formVars, confirmed, unmounted,
                   siteVars, initialStateRef>>

\* "Refresh Halaman": window.location.reload()
Reload ==
    /\ hasError
    /\ bookingModalOpen' = FALSE
    /\ selectedMotor' = NoMotor
    /\ recentlyViewed' = ReadStorage(storage)
    /\ notifications' = <<>>
    /\ timers' = <<>>
    /\ hasError' = FALSE
    /\ activeTestimonial' = 0
    /\ contactForm' = ContactInitial
    /\ bodyOverflow' = OverflowInitial
    /\ escapeListener' = FALSE
    /\ initialStateRef' = 0
    /\ effectDue' = TRUE
    /\ UNCHANGED <<storage, step, formVars, confirmed, unmounted>>

----------------------------------------------------------------------------
(* The contact form and the testimonial carousel *)

PageShown == ~hasError /\ ~unmounted

\* contactForm.handleChange: lines 62-69
contactChange(name, value) ==
    /\ PageShown
    /\ name \in ContactFields
    /\ contactForm' = [contactForm EXCEPT !.values[name] = value,
                                          !.touched = @ \cup {name}]
    /\ activeTestimonial' = activeTestimonial
    /\ AppRendered
    /\ effectDue' = TRUE
    /\ UNCHANGED <<appVars, notifVars, hasError, step, formVars, confirmed,
                   unmounted, initialStateRef>>

\* contactForm.handleBlur: lines 71-76
contactBlur(name) ==
    /\ PageShown
    /\ name \in ContactFields
    /\ contactForm' = [contactForm EXCEPT
                          !.touched = @ \cup {name},
                          !.errors = validateContact(contactForm.values)]
    /\ activeTestimonial' = activeTestimonial
    /\ AppRendered
    /\ effectDue' = TRUE
    /\ UNCHANGED <<appVars, notifVars, hasError, step, formVars, confirmed,
                   unmounted, initialStateRef>>

\* the contact form submitted without the reset of handleContactSubmit
contactSubmitNoReset ==
    /\ PageShown
    /\ ~contactForm.isSubmitting
    /\ Len(notifications) < MaxLive
    /\ Len(timers) + 1 <= MaxTimers
    /\ LET validationErrors == validateContact(contactForm.values)
       IN  IF DOMAIN validationErrors = {}
           THEN LET n == addNotification(notifications, timers,
                                         MsgContactSent, DefaultDuration)
                IN  /\ contactForm' = [contactForm EXCEPT
                                          !.errors = validationErrors,
                                          !.touched = ContactFields,
                                          !.isSubmitting = TRUE]
                    /\ notifications' = n.notifications
                    /\ timers' = n.timers
           ELSE /\ contactForm' = [contactForm EXCEPT
                                      !.errors = validationErrors,
                                      !.touched = ContactFields]
                /\ UNCHANGED notifVars
    /\ activeTestimonial' = activeTestimonial
    /\ AppRendered
    /\ effectDue' = TRUE
    /\ UNCHANGED <<appVars, hasError, step, formVars, confirmed, unmounted,
                   initialStateRef>>

\* onSubmit={contactForm.handleSubmit(handleContactSubmit)}: lines 78-88, and
\* for a draft without errors lines 712-716, where resetForm() follows
\* setErrors, setTouched and setIsSubmitting(true) in the same batch
contactSubmit ==
    /\ PageShown
    /\ ~contactForm.isSubmitting
    /\ Len(notifications) < MaxLive
    /\ Len(timers) + 1 <= MaxTimers
    /\ LET validationErrors == validateContact(contactForm.values)
       IN  IF DOMAIN validationErrors = {}
           THEN LET n == addNotification(notifications, timers,
                                         MsgContactSent, DefaultDuration)
                IN  /\ contactForm' = ContactInitial
                    /\ notifications' = n.notifications
                    /\ timers' = n.timers
           ELSE /\ contactForm' = [contactForm EXCEPT
                                      !.errors = validationErrors,
                                      !.touched = ContactFields]
                /\ UNCHANGED notifVars
    /\ activeTestimonial' = activeTestimonial
    /\ AppRendered
    /\ effectDue' = TRUE
    /\ UNCHANGED <<appVars, hasError, step, formVars, confirmed, unmounted,
                   initialStateRef>>

\* the interval callback without the modulus
TestimonialTickNoWrap ==
    /\ ~unmounted
    /\ activeTestimonial' = activeTestimonial + 1
    /\ contactForm' = contactForm
    /\ AppRendered
    /\ effectDue' = TRUE
    /\ UNCHANGED <<appVars, notifVars, hasError, step, formVars, confirmed,
                   unmounted, initialStateRef>>

\* the setInterval callback of lines 745-747, every 5000 ms while App is
\* mounted: setActiveTestimonial(prev => (prev + 1) % testimonials.length)
TestimonialTick ==
    /\ ~unmounted
    /\ activeTestimonial' = (activeTestimonial + 1) % TestimonialCount
    /\ contactForm' = contactForm
    /\ AppRendered
    /\ effectDue' = TRUE
    /\ UNCHANGED <<appVars, notifVars, hasError, step, formVars, confirmed,
                   unmounted, initialStateRef>>

\* a selector button: onClick={() => setActiveTestimonial(index)}
SelectTestimonial(index) ==
    /\ PageShown
    /\ index \in 0..(TestimonialCount - 1)
    /\ activeTestimonial' = index
    /\ contactForm' = contactForm
    /\ AppRendered
    /\ effectDue' = TRUE
    /\ UNCHANGED <<appVars, notifVars, hasError, step, formVars, confirmed,
                   unmounted, initialStateRef>>

----------------------------------------------------------------------------
(* Specifications.  Each explores the same operations over its own input   *)
(* sets; timers and the blur handler are left to the specifications that   *)
(* are about them, where the other inputs are kept narrow.                 *)

D1 == <<2024, 1, 1>>
D2 == <<2024, 1, 3>>

ValidEmail == <<"a", "@", "b", ".", "c">>

\* the catalog cards whose button is pressed
Motors == {1, 2}

\* Spec: the wizard as a flow (every operation but blur), varied inputs
FlowInputs(name) ==
    CASE name \in {"startDate", "endDate"} -> {EmptyStr, D1, D2}
      [] name = "email" -> {<<" ">>, <<"f", "o", "o">>, ValidEmail}
      [] name = "notes" -> {<<"n">>}
      [] name = "phone" -> {EmptyStr, <<"0", "8">>}
      [] OTHER -> {EmptyStr, <<" ">>, <<"a">>}

Next ==
    \/ \E motor \in Motors \cup {NoMotor} : handleBooking(motor)
    \/ \E name \in Fields : \E value \in FlowInputs(name) :
           handleChange(name, value)
    \/ Advance
    \/ Back
    \/ Submit
    \/ Close
    \/ Retry
    \/ Reload

Spec == Init /\ [][Next]_vars

\* SpecForm: every operation of the wizard, blur included, narrow inputs
FormInputs(name) ==
    CASE name = "startDate" -> {EmptyStr, D1}
      [] name = "endDate" -> {D1, D2}
      [] name = "email" -> {<<"f", "o", "o">>, ValidEmail}
      [] name = "notes" -> {<<"n">>}
      [] OTHER -> {EmptyStr, <<"a">>}

NextForm ==
    \/ handleBooking(1)
    \/ handleBooking(NoMotor)
    \/ \E name \in Fields : \E value \in FormInputs(name) :
           handleChange(name, value)
    \/ \E name \in Fields : handleBlur(name)
    \/ Advance
    \/ Back
    \/ Submit
    \/ Close
    \/ Retry
    \/ Reload

SpecForm == Init /\ [][NextForm]_vars

\* SpecEmail: the e-mail typed and erased a character at a time, every text
\* of at most MaxEmailLen characters, in a dialog that is on step 2 with the
\* other required fields filled in (a state that Spec reaches)
Alphabet == {"a", "@", ".", " "}

Typed(text) ==
    {Append(text, c) : c \in {x \in Alphabet : Len(text) < MaxEmailLen}}
    \cup {SubSeq(text, 1, Len(text) - 1) : x \in {y \in {1} : Len(text) > 0}}

InitEmail ==
    /\ bookingModalOpen = TRUE
    /\ selectedMotor = 1
    /\ storage = StoredUpdater
    /\ recentlyViewed = <<1>>
    /\ notifications = <<>>
    /\ timers = <<>>
    /\ hasError = FALSE
    /\ step = 2
    /\ values = [InitialValues EXCEPT !.startDate = D1, !.endDate = D2,
                                      !.name = <<"a">>, !.phone = <<"a">>]
    /\ errors = NoErrors
    /\ isSubmitting = FALSE
    /\ touched = {"startDate", "endDate", "name", "phone"}
    /\ confirmed = <<>>
    /\ unmounted = FALSE
    /\ activeTestimonial = 0
    /\ contactForm = ContactInitial
    /\ bodyOverflow = OverflowHidden
    /\ escapeListener = TRUE
    /\ initialStateRef = 0
    /\ effectDue = TRUE

NextEmail ==
    \/ \E value \in Typed(values.email) : handleChange("email", value)
    \/ Submit
    \/ Close

SpecEmail == InitEmail /\ [][NextEmail]_vars

\* SpecDays: the date step over dates around the end of February of a leap
\* year (date differences in ms stay within the integers of the model checker)
DayInputs ==
    {EmptyStr,
     <<2024, 2, 27>>, <<2024, 2, 28>>, <<2024, 2, 29>>, <<2024, 3, 1>>,
     <<2024, 3, 2>>, <<2024, 3, 15>>}

NextDays ==
    \/ \E motor \in Motors : handleBooking(motor)
    \/ \E name \in {"startDate", "endDate"} : \E value \in DayInputs :
           handleChange(name, value)
    \/ Advance
    \/ Back
    \/ Close

SpecDays == Init /\ [][NextDays]_vars

\* SpecDates: the date step with its blur handler, which runs validateBooking
\* on the draft, over every pair of dates absent, equal, in order and reversed
NextDates ==
    \/ handleBooking(1)
    \/ \E name \in {"startDate", "endDate"} : \E value \in DayInputs :
           handleChange(name, value)
    \/ \E name \in {"startDate", "endDate"} : handleBlur(name)
    \/ Close

SpecDates == Init /\ [][NextDates]_vars

\* SpecRecent: catalog cards and the other booking buttons pressed in any
\* order, two cards more than the list of recently viewed vehicles holds
RecentMotors == 1..(RecentLimit + 2)

NextRecent ==
    \/ \E motor \in RecentMotors \cup {NoMotor} : handleBooking(motor)
    \/ Close
    \/ Retry
    \/ Reload

SpecRecent == Init /\ [][NextRecent]_vars

\* SpecStorage: the page loads with any content of the storage item
StorageContents ==
    {StorageAbsent, StorageThrows, StoredEmpty, StoredUpdater, StoredGarbage,
     StoredNull, StoredNumber, StoredObject, StoredList}

InitStorage ==
    /\ storage \in StorageContents
    /\ bookingModalOpen = FALSE
    /\ selectedMotor = NoMotor
    /\ recentlyViewed = ReadStorage(storage)
    /\ notifications = <<>>
    /\ timers = <<>>
    /\ hasError = FALSE
    /\ step = 1
    /\ values = InitialValues
    /\ errors = NoErrors
    /\ isSubmitting = FALSE
    /\ touched = {}
    /\ confirmed = <<>>
    /\ unmounted = FALSE
    /\ InitPage

NextStorage ==
    \/ \E motor \in RecentMotors \cup {NoMotor} : handleBooking(motor)
    \/ \E name \in {"startDate", "endDate"} : \E value \in {D1, D2} :
           handleChange(name, value)
    \/ Advance
    \/ Back
    \/ Close
    \/ Retry
    \/ Reload

SpecStorage == InitStorage /\ [][NextStorage]_vars

\* SpecNotify: bookings confirmed, sessions closed and opened, notifications
\* dismissed, while time passes and the timers run
NotifyInputs(name) ==
    CASE name = "startDate" -> {D1}
      [] name = "endDate" -> {D2}
      [] name = "email" -> {ValidEmail}
      [] OTHER -> {<<"a">>}

NextNotify ==
    \/ handleBooking(1)
    \/ \E name \in Fields \ {"notes"} : \E value \in NotifyInputs(name) :
           handleChange(name, value)
    \/ Advance
    \/ Submit
    \/ Close
    \/ FireTimer
    \/ Elapse
    \/ \E n \in SeqToSet(notifications) : removeNotification(n.id)

SpecNotify == Init /\ [][NextNotify]_vars


\* SpecExpiry: the notifications of a confirmed booking, from a dialog whose
\* draft is complete, with the timers of the browser firing
InitExpiry ==
    /\ bookingModalOpen = TRUE
    /\ selectedMotor = 1
    /\ storage = StoredUpdater
    /\ recentlyViewed = <<1>>
    /\ notifications = <<>>
    /\ timers = <<>>
    /\ hasError = FALSE
    /\ step = 2
    /\ values = [InitialValues EXCEPT !.startDate = D1, !.endDate = D2,
                                      !.name = <<"a">>, !.phone = <<"a">>,
                                      !.email = ValidEmail]
    /\ errors = NoErrors
    /\ isSubmitting = FALSE
    /\ touched = {"startDate", "endDate", "name", "phone", "email"}
    /\ confirmed = <<>>
    /\ unmounted = FALSE
    /\ activeTestimonial = 0
    /\ contactForm = ContactInitial
    /\ bodyOverflow = OverflowHidden
    /\ escapeListener = TRUE
    /\ initialStateRef = 0
    /\ effectDue = TRUE

NextExpiry ==
    \/ Submit
    \/ Close
    \/ handleBooking(1)
    \/ FireTimer
    \/ Elapse
    \/ \E n \in SeqToSet(notifications) : removeNotification(n.id)

SpecExpiry == InitExpiry /\ [][NextExpiry]_vars /\ WF_vars(FireTimer)

\* SpecSite: the contact form and the carousel, with the expiry of the
\* notification of a sent message
ContactInputs(name) ==
    CASE name = "email" -> {<<" ">>, <<"f", "o", "o">>, ValidEmail}
      [] name = "message" -> {EmptyStr, <<"m">>}
      [] OTHER -> {EmptyStr, <<" ">>, <<"a">>}

NextSite ==
    \/ \E name \in ContactFields : \E value \in ContactInputs(name) :
           contactChange(name, value)
    \/ \E name \in ContactFields : contactBlur(name)
    \/ contactSubmit
    \/ TestimonialTick
    \/ \E index \in 0..(TestimonialCount - 1) : SelectTestimonial(index)
    \/ FireTimer

SpecSite == Init /\ [][NextSite]_vars

\* SpecEffect: the dialog opened, filled in and closed, and the reset effect
\* run whenever React has it pending (React runs the effects of a render
\* before it handles a later event, and does not leave them pending)
NextEffect ==
    \/ \E motor \in Motors : handleBooking(motor)
    \/ \E name \in {"startDate", "endDate"} : \E value \in {EmptyStr, D1, D2} :
           handleChange(name, value)
    \/ Advance
    \/ Back
    \/ Close
    \/ ResetEffect

SpecEffect == Init /\ [][NextEffect]_vars /\ WF_vars(ResetEffect)

\* SpecEscape: the wizard gone through, closed by its buttons and by the
\* Escape key, the key pressed also with the dialog closed or replaced by the
\* page of the error boundary
NextEscape ==
    \/ handleBooking(1)
    \/ handleBooking(NoMotor)
    \/ \E name \in Fields \ {"notes"} : \E value \in NotifyInputs(name) :
           handleChange(name, value)
    \/ Advance
    \/ Back
    \/ Submit
    \/ Close
    \/ PressEscape
    \/ FireTimer
    \/ Retry
    \/ Reload

SpecEscape == Init /\ [][NextEscape]_vars

----------------------------------------------------------------------------
(* Properties *)

Present(d) == d # EmptyStr

\* day of the year 2024 of a date of that year, from the lengths of its months
MonthStart2024 == <<0, 31, 60, 91, 121, 152, 182, 213, 244, 274, 305, 335>>

DayOfYear(d) == MonthStart2024[d[2]] + d[3]

\* whole days from start to end
DaysBetween(start, end) == DayOfYear(end) - DayOfYear(start)

ErrorAt(errs, key) == IF key \in DOMAIN errs THEN errs[key] ELSE "<none>"

\* some stretch of the text without white space reads x@y.z with x, y and z
\* not empty
ContainsAddress(s) ==
    \E a \in 1..Len(s) : \E b \in a..Len(s) :
        /\ \A k \in a..b : s[k] # " "
        /\ \E p \in (a+1)..b : \E q \in (p+2)..(b-1) : s[p] = "@" /\ s[q] = "."

\* the text can be read as local@domain.tld with none of the three parts empty
Decomposable(s) ==
    \E p \in 2..Len(s) : \E q \in (p+2)..(Len(s)-1) : s[p] = "@" /\ s[q] = "."

Step2ChecksPass(v) ==
    /\ ~IsBlank(v.name)
    /\ ~IsBlank(v.phone)
    /\ ~IsBlank(v.email)
    /\ ContainsAddress(v.email)

NoConfirmation ==
    /\ confirmed' = confirmed
    /\ notifications' = notifications
    /\ timers' = timers

\* C1 (as claimed): the wizard goes from step 1 to step 2 only if both dates
\* are present and the end date is strictly after the start date.
C1_AdvanceNeedsValidRange ==
    [][(DialogShown /\ step = 1 /\ step' = 2) =>
          /\ Present(values.startDate)
          /\ Present(values.endDate)
          /\ DaysBetween(values.startDate, values.endDate) > 0]_vars

\* C2: the wizard goes from step 2 to step 3 only if name and phone are not
\* blank and the e-mail is not blank and has the accepted shape; a submit with
\* one of these checks failing leaves the wizard on step 2.
C2_SubmitGatedByStep2Checks ==
    [][/\ (step = 2 /\ step' = 3) => Step2ChecksPass(values)
       /\ (Submit /\ ~Step2ChecksPass(values)) => step' = 2]_vars

\* a submit was rejected for a white-space name alone
C2_Witness ==
    /\ DialogShown
    /\ step = 2
    /\ touched = Fields
    /\ values.name = <<" ">>
    /\ DOMAIN errors = {"name"}

\* C3: onConfirm runs exactly once on each step 2 -> 3 transition and on no
\* other step of the system (a rejected submit included), so that a session
\* of the dialog sees at most one call.
C3_ConfirmOncePerTransition ==
    [][/\ (step = 2 /\ step' = 3) <=>
              /\ confirmed' # <<>>
              /\ confirmed = SubSeq(confirmed', 1, Len(confirmed') - 1)
       /\ (step = 2 /\ step' = 3) <=>
              Len(notifications') = Len(notifications) + 1
       /\ ~(step = 2 /\ step' = 3) =>
              /\ confirmed' \in {confirmed, <<>>}
              /\ notifications' \in {notifications, <<>>}
              /\ timers' \in {timers, <<>>}
       /\ Len(confirmed') <= 1]_vars

\* a session has confirmed its booking after blurs had filled the error object
C3_Witness ==
    /\ DialogShown
    /\ step = 3
    /\ Len(confirmed) = 1
    /\ Len(notifications) = 1
    /\ errors = NoErrors
    /\ touched = Fields

\* C4: whenever the closed dialog is opened, the six draft fields are empty and
\* the step is 1, whatever the session before it did.
C4_OpenAfterCloseIsFresh ==
    [][(~bookingModalOpen /\ bookingModalOpen' /\ ~hasError') =>
          /\ \A f \in Fields : values'[f] = EmptyStr
          /\ step' = 1]_vars

\* the dialog has been closed and opened again after a booking was confirmed
C4_Witness ==
    /\ DialogShown
    /\ step = 1
    /\ values = InitialValues
    /\ confirmed = <<>>
    /\ Len(notifications) = 1

\* C5 (as claimed): an open dialog always has a vehicle, and the error boundary
\* is never entered.
C5_OpenDialogHasVehicle ==
    /\ bookingModalOpen => selectedMotor # NoMotor
    /\ ~hasError

\* C6: with both dates present the day count is the greater of 1 and the
\* number of days from start to end; it is 0 exactly when a date is missing;
\* and the date step is left only with a count of at least 1.
C6_DayCount ==
    /\ (Present(values.startDate) /\ Present(values.endDate)) =>
           totalDays(values) = Max(1, DaysBetween(values.startDate, values.endDate))
    /\ totalDays(values) = 0 <=>
           (~Present(values.startDate) \/ ~Present(values.endDate))
    /\ step = 2 => totalDays(values) >= 1

\* the date step was left with dates two days apart across 29 February
C6_Witness ==
    /\ DialogShown
    /\ step = 2
    /\ values.startDate = <<2024, 2, 28>>
    /\ values.endDate = <<2024, 3, 1>>

\* C7: every booking handed to onConfirm carries a vehicle and has
\* totalPrice = totalDays * the daily rate of that vehicle, totalDays being the
\* day count of the dates in the same booking.
C7_PriceIsDaysTimesRate ==
    \A i \in 1..Len(confirmed) :
        LET r == confirmed[i] IN
        /\ r.motor \in CatalogIds
        /\ r.totalDays = Max(1, DaysBetween(r.startDate, r.endDate))
        /\ r.totalPrice = r.totalDays * Price(r.motor)

\* the example of the specification: rate 100000, 2024-01-01 to 2024-01-03
C7_Witness ==
    /\ Len(confirmed) = 1
    /\ confirmed[1].motor = 2
    /\ confirmed[1].startDate = <<2024, 1, 1>>
    /\ confirmed[1].endDate = <<2024, 1, 3>>
    /\ confirmed[1].totalDays = 2
    /\ confirmed[1].totalPrice = 200000

\* C8: every booking handed to onConfirm has both dates, an end date strictly
\* after the start date and a day count of at least 1.
C8_ConfirmedRangeIsValid ==
    \A i \in 1..Len(confirmed) :
        LET r == confirmed[i] IN
        /\ Present(r.startDate)
        /\ Present(r.endDate)
        /\ DaysBetween(r.startDate, r.endDate) > 0
        /\ r.totalDays >= 1

\* a booking with a note was confirmed
C8_Witness ==
    /\ step = 3
    /\ Len(confirmed) = 1
    /\ Present(confirmed[1].startDate)
    /\ confirmed[1].notes # EmptyStr

\* C9: a submit with an empty or white-space e-mail reports the missing-field
\* error on the e-mail, calls no onConfirm and leaves the wizard on step 2.
C9_BlankEmailIsMissingField ==
    [][(Submit /\ IsBlank(values.email)) =>
          /\ ErrorAt(errors', "email") = MsgEmailRequired
          /\ step' = 2
          /\ NoConfirmation]_vars

\* a submit was rejected for a white-space e-mail alone
C9_Witness ==
    /\ DialogShown
    /\ step = 2
    /\ touched = Fields
    /\ values.email = <<" ">>
    /\ DOMAIN errors = {"email"}
    /\ errors["email"] = MsgEmailRequired

\* C10: a submit with a non-blank e-mail that cannot be read as
\* local@domain.tld with all three parts non-empty (no '@', no '.' after the
\* '@', or an empty part) reports the invalid-e-mail error on the e-mail, calls
\* no onConfirm and leaves the wizard on step 2.
C10_ShapelessEmailIsInvalid ==
    [][(Submit /\ ~IsBlank(values.email) /\ ~Decomposable(values.email)) =>
          /\ ErrorAt(errors', "email") = MsgEmailInvalid
          /\ step' = 2
          /\ NoConfirmation]_vars

\* a submit was rejected for an e-mail without '@' alone
C10_Witness ==
    /\ DialogShown
    /\ step = 2
    /\ touched = Fields
    /\ values.email = <<"a", "a", "a">>
    /\ DOMAIN errors = {"email"}
    /\ errors["email"] = MsgEmailInvalid

\* C11: validating a draft reports the missing-date error on the start date
\* exactly when the start date is absent, the missing-date error on the end
\* date exactly when the end date is absent, the invalid-range error on the end
\* date exactly when both dates are present and the end is not after the
\* start, and no date error when both are present and in order.
DateErrorsAsClaimed(v, e) ==
    /\ ("startDate" \in DOMAIN e) <=> ~Present(v.startDate)
    /\ "startDate" \in DOMAIN e => e["startDate"] = MsgStartRequired
    /\ (ErrorAt(e, "endDate") = MsgEndRequired) <=> ~Present(v.endDate)
    /\ (ErrorAt(e, "endDate") = MsgEndNotAfter) <=>
           /\ Present(v.startDate)
           /\ Present(v.endDate)
           /\ DaysBetween(v.startDate, v.endDate) <= 0
    /\ "endDate" \in DOMAIN e => e["endDate"] \in {MsgEndRequired, MsgEndNotAfter}
    /\ (/\ Present(v.startDate)
        /\ Present(v.endDate)
        /\ DaysBetween(v.startDate, v.endDate) > 0)
           => DOMAIN e \cap {"startDate", "endDate"} = {}

C11_DateErrors ==
    [][(\E name \in Fields : handleBlur(name)) =>
          DateErrorsAsClaimed(values, errors')]_vars

\* a blur has reported an end date that is before the start date
C11_Witness ==
    /\ DialogShown
    /\ Present(values.startDate)
    /\ Present(values.endDate)
    /\ DaysBetween(values.startDate, values.endDate) < 0
    /\ ErrorAt(errors, "endDate") = MsgEndNotAfter
    /\ "startDate" \notin DOMAIN errors

\* C12: the step is 1, 2 or 3 and changes only from 1 to 2 with the dialog
\* open, from 2 to 1 by going back or closing, from 2 to 3 by a submit that
\* found no error and confirmed the booking, and to 1 by closing; it never goes
\* from 1 to 3, it leaves 3 only by closing, and closing always leads to 1.
C12_StepTransitions ==
    [][/\ step \in {1, 2, 3}
       /\ step' \in {1, 2, 3}
       /\ (step = 1 /\ step' # 1) => (step' = 2 /\ bookingModalOpen')
       /\ (step = 2 /\ step' = 3) =>
              /\ errors' = NoErrors
              /\ Len(confirmed') = Len(confirmed) + 1
              /\ bookingModalOpen'
       /\ (step = 2 /\ step' = 1) =>
              \/ bookingModalOpen' /\ values' = values
              \/ ~bookingModalOpen'
       /\ (step = 3 /\ step' # 3) => (step' = 1 /\ ~bookingModalOpen')
       /\ (bookingModalOpen /\ ~bookingModalOpen') => step' = 1]_vars

\* a session that follows a confirmed one is on the details step
C12_Witness ==
    /\ DialogShown
    /\ step = 2
    /\ confirmed = <<>>
    /\ Len(notifications) = 1
    /\ notifications[1].message = MsgBooked

\* C13: going back from step 2 to step 1 changes the step and nothing else:
\* the six field values and the vehicle of the dialog stay as they were.
C13_BackKeepsDraft ==
    [][(DialogShown /\ step = 2 /\ step' = 1 /\ bookingModalOpen') =>
          /\ \A f \in Fields : values'[f] = values[f]
          /\ selectedMotor' = selectedMotor
          /\ UNCHANGED <<recentlyViewed, storage, notifications, timers,
                         hasError, errors, isSubmitting, touched, confirmed,
                         unmounted>>]_vars

\* the wizard is back on the date step with the details it was given
C13_Witness ==
    /\ DialogShown
    /\ step = 1
    /\ values.name = <<"a">>
    /\ values.email = ValidEmail
    /\ values.phone = <<"0", "8">>
    /\ values.notes = <<"n">>

\* C14: a field change sets the named field to the value and marks that field
\* touched; every other field value and touched flag, the error object, the
\* step and isSubmitting stay as they were.
C14_SetFieldFrame ==
    [][\A name \in Fields : \A value \in FormInputs(name) :
          handleChange(name, value) =>
              /\ values'[name] = value
              /\ \A f \in Fields \ {name} : values'[f] = values[f]
              /\ name \in touched'
              /\ \A f \in Fields \ {name} : (f \in touched') <=> (f \in touched)
              /\ errors' = errors
              /\ step' = step
              /\ isSubmitting' = isSubmitting]_vars

\* a name was typed after a blur had reported it missing: the report stays
C14_Witness ==
    /\ DialogShown
    /\ step = 2
    /\ ~IsBlank(values.name)
    /\ ErrorAt(errors, "name") = MsgNameRequired

\* C15: a submit that finds errors leaves the field values, the step, the
\* vehicle and isSubmitting as they were, the submit button is never disabled
\* on step 2, and a submit of a draft that validates after an earlier
\* rejection confirms the booking.
C15_RejectedSubmitRecoverable ==
    [][/\ (Submit /\ validateBooking(values) # NoErrors) =>
              /\ \A f \in Fields : values'[f] = values[f]
              /\ step' = step
              /\ selectedMotor' = selectedMotor
              /\ isSubmitting' = isSubmitting
              /\ errors' # NoErrors
              /\ touched' = Fields
              /\ NoConfirmation
       /\ (DialogShown /\ step = 2) => ~isSubmitting
       /\ (Submit /\ errors # NoErrors /\ validateBooking(values) = NoErrors) =>
              /\ step' = 3
              /\ Len(confirmed') = Len(confirmed) + 1]_vars

\* the fields reported by a rejected submit have been corrected
C15_Witness ==
    /\ DialogShown
    /\ step = 2
    /\ ~isSubmitting
    /\ touched = Fields
    /\ DOMAIN errors = {"name", "email", "phone"}
    /\ validateBooking(values) = NoErrors

\* C16 (as claimed): a submit that is rejected on step 2 leaves an error
\* message displayed at one of the fields of that step (name, email, phone).
C16_RejectionShownOnStep2 ==
    [][(Submit /\ validateBooking(values) # NoErrors) =>
          \E f \in {"name", "email", "phone"} :
              f \in touched' /\ f \in DOMAIN errors']_vars

NoDuplicates(q) == \A i \in 1..Len(q) : \A j \in 1..Len(q) : q[i] = q[j] => i = j

\* C17: the list of recently viewed vehicles never has more than 3 entries and
\* never holds a vehicle twice.
C17_RecentCappedAndDistinct ==
    /\ Len(recentlyViewed) <= 3
    /\ NoDuplicates(recentlyViewed)

\* a full list, headed by the vehicle of the dialog
C17_Witness ==
    /\ bookingModalOpen
    /\ selectedMotor = 4
    /\ Len(recentlyViewed) = 3
    /\ recentlyViewed[1] = 4

PositionIn(q, x) == CHOOSE i \in 1..Len(q) : q[i] = x

\* C18: after a vehicle v is opened, v heads the list and is followed by the
\* earlier entries other than v in their earlier order, as many of the first
\* of them as keep the list at 3; opening without a vehicle leaves the list.
C18_RecentMostRecentFirst ==
    [][/\ \A v \in RecentMotors : handleBooking(v) =>
              LET old    == recentlyViewed
                  new    == recentlyViewed'
                  others == {old[i] : i \in 1..Len(old)} \ {v}
              IN  /\ new[1] = v
                  /\ Len(new) = IF Cardinality(others) >= 2
                                THEN 3 ELSE Cardinality(others) + 1
                  /\ \A i \in 2..Len(new) : new[i] \in others
                  /\ \A i \in 2..Len(new) : \A j \in 2..Len(new) :
                         i < j => PositionIn(old, new[i]) < PositionIn(old, new[j])
                  /\ \A x \in others :
                         (\A i \in 2..Len(new) : new[i] # x) =>
                             \A i \in 2..Len(new) :
                                 PositionIn(old, new[i]) < PositionIn(old, x)
       /\ handleBooking(NoMotor) => recentlyViewed' = recentlyViewed]_vars

\* the last entry of a full list was opened again and heads the list
C18_Witness ==
    /\ bookingModalOpen
    /\ selectedMotor = 2
    /\ recentlyViewed = <<2, 4, 3>>

\* C19 (as claimed): whatever the storage item held when the page loaded,
\* pressing the button of a catalog card opens the dialog with that vehicle
\* and raises no error.
C19_OpenSurvivesAnyStorage ==
    [][\A motor \in RecentMotors : handleBooking(motor) =>
          /\ bookingModalOpen'
          /\ selectedMotor' = motor
          /\ ~hasError'
          /\ ~unmounted']_vars

FollowUps(ts) == Cardinality({k \in 1..Len(ts) : ts[k].kind = "followup"})

AddsOne(ns, message) ==
    /\ Len(ns') = Len(ns) + 1
    /\ SubSeq(ns', 1, Len(ns)) = ns
    /\ ns'[Len(ns')].message = message

\* C20: a confirmation adds the booking notification at once and starts one
\* deferred timer with a positive delay; a deferred timer leaves the pending
\* timers only by running, one at a time, and then adds the follow-up
\* notification, whether or not the dialog is still open; and no other step
\* adds a notification or starts a deferred timer.
C20_TwoNotificationsPerConfirm ==
    [][/\ (step = 2 /\ step' = 3) =>
              /\ AddsOne(notifications, MsgBooked)
              /\ FollowUps(timers') = FollowUps(timers) + 1
              /\ timers'[Len(timers')].kind = "followup"
              /\ timers'[Len(timers')].remaining > 0
       /\ FollowUps(timers') < FollowUps(timers) =>
              /\ FollowUps(timers') = FollowUps(timers) - 1
              /\ AddsOne(notifications, MsgFollowUp)
              /\ step' = step
       /\ FollowUps(timers') > FollowUps(timers) => (step = 2 /\ step' = 3)
       /\ Len(notifications') > Len(notifications) =>
              \/ step = 2 /\ step' = 3
              \/ FollowUps(timers') < FollowUps(timers)]_vars

\* both notifications of a booking are shown and the dialog has been closed
C20_Witness ==
    /\ ~bookingModalOpen
    /\ Len(notifications) = 2
    /\ notifications[1].message = MsgBooked
    /\ notifications[2].message = MsgFollowUp

ContactValid(v) ==
    /\ ~IsBlank(v.name)
    /\ ~IsBlank(v.message)
    /\ ~IsBlank(v.email)
    /\ ContainsAddress(v.email)

\* C21: a submit of the contact form with a blank name, a blank message or a
\* blank or shapeless e-mail adds no notification, keeps the values and
\* reports an error; a submit with the three valid adds one notification and
\* leaves the form as it was at first: empty values, no errors, no touched
\* field, isSubmitting false.
C21_ContactSubmit ==
    [][/\ (contactSubmit /\ ~ContactValid(contactForm.values)) =>
              /\ notifications' = notifications
              /\ timers' = timers
              /\ contactForm'.values = contactForm.values
              /\ contactForm'.errors # NoErrors
              /\ ~contactForm'.isSubmitting
       /\ (contactSubmit /\ ContactValid(contactForm.values)) =>
              /\ AddsOne(notifications, MsgContactSent)
              /\ \A f \in ContactFields : contactForm'.values[f] = EmptyStr
              /\ DOMAIN contactForm'.errors = {}
              /\ contactForm'.touched = {}
              /\ ~contactForm'.isSubmitting]_vars

\* a message was sent after an attempt that had been rejected and blurs: the
\* form is empty again and its notification is shown
C21_Witness ==
    /\ Len(notifications) = 1
    /\ notifications[1].message = MsgContactSent
    /\ \A f \in ContactFields : contactForm.values[f] = EmptyStr
    /\ contactForm.touched = {}
    /\ DOMAIN contactForm.errors = {}
    /\ ~contactForm.isSubmitting

\* the whole text reads local@domain.tld: no white space in it and none of the
\* three parts empty
WholeAddress(s) ==
    /\ \A k \in 1..Len(s) : s[k] # " "
    /\ Decomposable(s)

\* C22 (as claimed): a submit with a non-blank e-mail that is not as a whole
\* of the shape local@domain.tld reports the invalid-e-mail error and leaves
\* the wizard on step 2.
C22_EmailWholeValueShape ==
    [][(Submit /\ ~IsBlank(values.email) /\ ~WholeAddress(values.email)) =>
          /\ ErrorAt(errors', "email") = MsgEmailInvalid
          /\ step' = 2]_vars

\* the error object that the claims about validation describe for a draft
ErrorsMatchDraft(v, e) ==
    /\ DOMAIN e \subseteq {"name", "email", "phone", "startDate", "endDate"}
    /\ ("name" \in DOMAIN e) <=> IsBlank(v.name)
    /\ ("phone" \in DOMAIN e) <=> IsBlank(v.phone)
    /\ (ErrorAt(e, "email") = MsgEmailRequired) <=> IsBlank(v.email)
    /\ (ErrorAt(e, "email") = MsgEmailInvalid) <=>
           (~IsBlank(v.email) /\ ~ContainsAddress(v.email))
    /\ DateErrorsAsClaimed(v, e)

\* C23: a blur stores the errors of the draft as it is at that moment, marks
\* the blurred field touched and no other, and leaves the field values, the
\* step, the vehicle and isSubmitting as they were; validating the same draft
\* again gives the stored errors.
C23_BlurValidatesCurrentDraft ==
    [][\A name \in Fields : handleBlur(name) =>
          /\ ErrorsMatchDraft(values, errors')
          /\ errors' = validateBooking(values')
          /\ touched' = touched \cup {name}
          /\ \A f \in Fields : values'[f] = values[f]
          /\ step' = step
          /\ selectedMotor' = selectedMotor
          /\ isSubmitting' = isSubmitting]_vars

\* the name was typed and then left: it is the one field of step 2 that is
\* touched, and the errors are those of the draft with the name in it
C23_Witness ==
    /\ DialogShown
    /\ step = 2
    /\ values.name = <<"a">>
    /\ touched = {"startDate", "endDate", "name"}
    /\ DOMAIN errors = {"email", "phone"}

\* C24 (as claimed): with the dialog closed and the reset effect pending, a
\* state follows in which nothing is pending any more or the dialog is open.
C24_ClosedDialogQuiesces ==
    (~bookingModalOpen /\ effectDue) ~> (bookingModalOpen \/ ~effectDue)

\* C25 (as claimed): after a vehicle is opened, reading the storage item back
\* gives the list of recently viewed vehicles that is in memory.
C25_StorageRestoresList ==
    [][\A v \in RecentMotors : handleBooking(v) =>
          ReadStorage(storage') = recentlyViewed']_vars

Ids(ns) == {ns[k].id : k \in 1..Len(ns)}

\* an upper bound of the ids that FreshId gives out
NotificationIds == 1..(MaxTimers + 2)

\* C26: every notification shown has its own expiry timer pending and, the
\* timers firing, leaves the list; the close button of a notification removes
\* that notification and no other; an expiry timer removes the notification
\* of its id and no other, none if that one was removed before.
C26_NotificationsExpire ==
    /\ [](\A k \in 1..Len(notifications) :
              \E j \in 1..Len(timers) :
                  /\ timers[j].kind = "expire"
                  /\ timers[j].id = notifications[k].id)
    /\ [][/\ \A id \in NotificationIds : removeNotification(id) =>
                 /\ Ids(notifications') = Ids(notifications) \ {id}
                 /\ Len(notifications') = Len(notifications) - 1
          /\ (FireTimer /\ timers[NextDue(timers)].kind = "expire") =>
                 /\ Ids(notifications') =
                        Ids(notifications) \ {timers[NextDue(timers)].id}
                 /\ Len(notifications') >= Len(notifications) - 1]_vars
    /\ \A id \in NotificationIds :
           (id \in Ids(notifications)) ~> (id \notin Ids(notifications))

\* a notification is shown while the expiry timer of another, which was
\* closed by its button, is still pending
C26_Witness ==
    /\ notifications # <<>>
    /\ \E j \in 1..Len(timers) :
           /\ timers[j].kind = "expire"
           /\ timers[j].id \notin Ids(notifications)

\* C27: whenever the closed dialog is opened, the error object is empty, no
\* field is touched and isSubmitting is false, whatever the session before it
\* did.
C27_SessionStartsClean ==
    [][(~bookingModalOpen /\ bookingModalOpen' /\ ~hasError') =>
          /\ DOMAIN errors' = {}
          /\ touched' = {}
          /\ ~isSubmitting']_vars

\* a session has just been opened after one that confirmed a booking
C27_Witness ==
    /\ DialogShown
    /\ step = 1
    /\ Len(notifications) = 1
    /\ touched = {}
    /\ DOMAIN errors = {}
    /\ ~isSubmitting
    /\ values = InitialValues

\* C28: the index of the testimonial shown is 0, 1 or 2; the interval callback
\* takes it 0 -> 1 -> 2 -> 0 and a selector button sets it to its own index.
C28_TestimonialIndexInRange ==
    [][/\ activeTestimonial \in 0..2
       /\ activeTestimonial' \in 0..2
       /\ TestimonialTick =>
              activeTestimonial' = IF activeTestimonial = 2 THEN 0
                                   ELSE activeTestimonial + 1
       /\ \A index \in 0..2 : SelectTestimonial(index) =>
              activeTestimonial' = index]_vars

\* the last testimonial is shown while a contact message has been sent
C28_Witness ==
    /\ activeTestimonial = 2
    /\ Len(notifications) = 1

ScrollLocked == bodyOverflow = OverflowHidden

\* C29: the Escape listener is registered and the page scroll is locked
\* exactly while the dialog is shown; Escape with the dialog shown closes it
\* as the close button does; and every closing releases the scroll lock and
\* removes the listener.
C29_EscapeAndScrollLock ==
    [][/\ escapeListener <=> DialogShown
       /\ ScrollLocked <=> DialogShown
       /\ escapeListener' <=> DialogShown'
       /\ ScrollLocked' <=> DialogShown'
       /\ (PressEscape /\ DialogShown) =>
              /\ ~bookingModalOpen'
              /\ step' = 1
              /\ values' = InitialValues
       /\ (PressEscape /\ ~DialogShown) => UNCHANGED vars
       /\ (bookingModalOpen /\ ~bookingModalOpen') =>
              /\ ~ScrollLocked'
              /\ ~escapeListener']_vars

\* the dialog was closed on its last step: the lock is released
C29_Witness ==
    /\ ~bookingModalOpen
    /\ ~hasError
    /\ bodyOverflow = OverflowUnset
    /\ ~escapeListener
    /\ Len(notifications) = 1
    /\ notifications[1].message = MsgBooked

====
